---------------------------- MODULE Spec2Model ----------------------------
(***************************************************************************)
(* Model of the FundPanel LP portal: the static data service               *)
(* (lpStaticDataService), the filter bar (lpFilterBar) and the dashboard   *)
(* container (lpPortalDashboard) with its setTimeout callbacks.            *)
(*                                                                         *)
(* Number representation.  JavaScript numbers are doubles; the fixture     *)
(* values are decimals with two places.  The model computes with exact     *)
(* decimals:                                                               *)
(*   - a number of the fixture (an amount, a TVPI) is a natural number of  *)
(*     hundredths, written as a little-endian sequence of base-10000 limbs *)
(*     without leading zero limbs (TLC integers are 32 bits wide, the      *)
(*     amounts are not); NaN is the sequence <<-1>>;                       *)
(*   - multipliers and offsets are integers in hundredths;                 *)
(*   - an allocation percentage is a record [num, den] standing for        *)
(*     num/den percent.                                                    *)
(* Math.round(x * 100) / 100 is rounding half-up to hundredths.            *)
(***************************************************************************)
EXTENDS Integers, Sequences, FiniteSets, TLC

VARIABLES
    \* environment of the data service
    today,              \* [year, month]: getFullYear() and getMonth() (0-based) of new Date()
    tzOffset,           \* hours the local time zone is ahead of UTC
    \* the last call of the data service: function, arguments, returned value
    callOp, callVehicleId, callFundId, ret,
    \* the argument of the last call of a formatting helper
    callValue,
    \* a call made before, kept to compare a repetition of it with
    earlier,
    \* lpFilterBar
    selectedVehicleId, selectedFundId,
    \* lpPortalDashboard
    connected, currentVehicleId, currentFundId,
    metrics, allocationData, performanceData,
    isLoading, pendingTimeout,
    \* lpReportsModal
    modalIsOpen, modalMetrics, modalFilterState,
    \* customLogin: its fields (isLoading is loginIsLoading here), the login
    \* requests that have not settled, and window.location.href
    username, password, errorMessage, loginIsLoading, inFlight, href,
    \* the browser's timer queue, in scheduling order
    timers,
    \* observation of the last operation: its name, its arguments, whether it
    \* ran loadDashboardData, and the filterchange events it dispatched
    lastOp, lastArgs, loaded, dispatched,
    \* the environment: no further request (user event or API call) arrives
    quiet

envVars == <<today, tzOffset>>
svcVars == <<callOp, callVehicleId, callFundId, callValue, ret, earlier>>
barVars == <<selectedVehicleId, selectedFundId>>
dashVars == <<connected, currentVehicleId, currentFundId, metrics, allocationData,
              performanceData, isLoading, pendingTimeout>>
obsVars == <<lastOp, lastArgs, loaded, dispatched>>
modalVars == <<modalIsOpen, modalMetrics, modalFilterState>>
loginVars == <<username, password, errorMessage, loginIsLoading, inFlight, href>>
uiVars == <<barVars, dashVars, modalVars, loginVars, timers, obsVars, quiet>>
vars == <<envVars, svcVars, uiVars>>

---------------------------------------------------------------------------
(* Exact decimal arithmetic on limb sequences.                             *)

Base == 10 ^ 4

RECURSIVE Normalize(_)
Normalize(n) ==
    IF n = <<>> THEN <<>>
    ELSE IF n[Len(n)] = 0 THEN Normalize(SubSeq(n, 1, Len(n) - 1))
    ELSE n

\* w whole units and c hundredths, as a number of hundredths
Num(w, c) ==
    Normalize(<<(w % 100) * 100 + c, (w \div 100) % Base, w \div 1000000>>)

RECURSIVE MulCarry(_, _, _)
MulCarry(n, k, carry) ==
    IF n = <<>> THEN (IF carry = 0 THEN <<>> ELSE MulCarry(<<carry>>, 1, 0))
    ELSE LET p == n[1] * k + carry
         IN  <<p % Base>> \o MulCarry(Tail(n), k, p \div Base)

\* n * k for a small natural k
MulSmall(n, k) == Normalize(MulCarry(n, k, 0))

RECURSIVE AddCarry(_, _, _)
AddCarry(a, b, carry) ==
    IF a = <<>> /\ b = <<>> THEN (IF carry = 0 THEN <<>> ELSE <<carry>>)
    ELSE LET x == IF a = <<>> THEN 0 ELSE a[1]
             y == IF b = <<>> THEN 0 ELSE b[1]
             s == x + y + carry
         IN  <<s % Base>> \o AddCarry(IF a = <<>> THEN <<>> ELSE Tail(a),
                                      IF b = <<>> THEN <<>> ELSE Tail(b),
                                      s \div Base)

Add(a, b) == Normalize(AddCarry(a, b, 0))

RECURSIVE LeqFrom(_, _, _)
LeqFrom(a, b, i) ==
    IF i = 0 THEN TRUE
    ELSE IF a[i] # b[i] THEN a[i] < b[i]
    ELSE LeqFrom(a, b, i - 1)

\* a <= b for normalized a, b
Leq(a, b) ==
    IF Len(a) # Len(b) THEN Len(a) < Len(b) ELSE LeqFrom(a, b, Len(a))

RECURSIVE DivFrom(_, _, _, _)
DivFrom(n, d, i, rem) ==
    IF i = 0 THEN <<>>
    ELSE LET cur == rem * Base + n[i]
         IN  DivFrom(n, d, i - 1, cur % d) \o <<cur \div d>>

\* floor(n / d) for a small positive d
DivSmall(n, d) == Normalize(DivFrom(n, d, Len(n), 0))

\* Math.round(x) of x = n / d, d small and even: floor(x + 1/2)
RoundDiv(n, d) == DivSmall(Add(n, Num(0, d \div 2)), d)

RECURSIVE QuotientSearch(_, _, _, _)
QuotientSearch(n, d, lo, hi) ==
    \* the largest q in lo..hi with q * d <= n, given lo * d <= n
    IF lo = hi THEN lo
    ELSE LET mid == (lo + hi + 1) \div 2
         IN  IF Leq(MulSmall(d, mid), n) THEN QuotientSearch(n, d, mid, hi)
             ELSE QuotientSearch(n, d, lo, mid - 1)

\* Math.round(a / b * 10000) for amounts 0 <= a <= b, b > 0
RoundRatio10000(a, b) ==
    QuotientSearch(Add(MulSmall(a, 2 * 10000), b), MulSmall(b, 2), 0, 10000)

---------------------------------------------------------------------------
(* lpStaticDataService: fixtures.                                          *)

Undefined == "<undefined>"

\* a parameter declared with the default value 'all'
DefaultAll(x) == IF x = Undefined THEN "all" ELSE x

\* JavaScript truthiness of an id argument
Truthy(x) == x # Undefined /\ x # ""

InvestmentVehicles ==
    << [id |-> "all", name |-> "All Investment Vehicles"],
       [id |-> "iv1", name |-> "Investment Vehicle 1"],
       [id |-> "iv2", name |-> "Investment Vehicle 2"] >>

getInvestmentVehicles == InvestmentVehicles

\* the last fund refers to a vehicle that is not in the list
fundBaseData_OrphanFund ==
    << [id |-> "pbventures", name |-> "PB Ventures Fund", vehicleId |-> "iv1", color |-> "#1976D2"],
       [id |-> "norton", name |-> "Norton Ventures", vehicleId |-> "iv1", color |-> "#388E3C"],
       [id |-> "wanye", name |-> "Wanye", vehicleId |-> "iv2", color |-> "#F57C00"],
       [id |-> "violet", name |-> "Violet", vehicleId |-> "iv2", color |-> "#7B1FA2"],
       [id |-> "123", name |-> "123", vehicleId |-> "iv2", color |-> "#C2185B"],
       [id |-> "mjk", name |-> "MJK", vehicleId |-> "iv3", color |-> "#0097A7"] >>

fundBaseData ==
    << [id |-> "pbventures", name |-> "PB Ventures Fund", vehicleId |-> "iv1", color |-> "#1976D2"],
       [id |-> "norton", name |-> "Norton Ventures", vehicleId |-> "iv1", color |-> "#388E3C"],
       [id |-> "wanye", name |-> "Wanye", vehicleId |-> "iv2", color |-> "#F57C00"],
       [id |-> "violet", name |-> "Violet", vehicleId |-> "iv2", color |-> "#7B1FA2"],
       [id |-> "123", name |-> "123", vehicleId |-> "iv2", color |-> "#C2185B"],
       [id |-> "mjk", name |-> "MJK", vehicleId |-> "iv1", color |-> "#0097A7"] >>

Metrics(tc, called, dist, val, tvpi) ==
    [totalCommitments |-> tc, totalCalled |-> called, totalDistributions |-> dist,
     estimatedValue |-> val, estimatedTVPI |-> tvpi]

fullMetrics ==
    Metrics(Num(618886450, 23), Num(130575585, 29), Num(12756900, 14),
            Num(160335942, 14), Num(1, 33))

fundMetrics ==
    ("pbventures" :> Metrics(Num(194628458, 10), Num(41065941, 8), Num(4012695, 4),
                             Num(50425624, 79), Num(1, 45))) @@
    ("norton"     :> Metrics(Num(137997718, 40), Num(29118396, 52), Num(2844788, 43),
                             Num(35754895, 27), Num(1, 38))) @@
    ("wanye"      :> Metrics(Num(116038209, 42), Num(24482922, 24), Num(2391918, 78),
                             Num(30062989, 28), Num(1, 28))) @@
    ("violet"     :> Metrics(Num(87878875, 83), Num(18541733, 12), Num(1811479, 82),
                             Num(22767703, 84), Num(1, 25))) @@
    ("123"        :> Metrics(Num(50129802, 47), Num(10576622, 39), Num(1033309, 11),
                             Num(12987225, 32), Num(1, 18))) @@
    ("mjk"        :> Metrics(Num(32213385, 1), Num(6789970, 94), Num(662709, 96),
                             Num(8337503, 64), Num(1, 42)))

vehicleMetrics ==
    ("iv1" :> Metrics(Num(364839561, 51), Num(77022308, 54), Num(7520193, 43),
                      Num(94518023, 70), Num(1, 41))) @@
    ("iv2" :> Metrics(Num(254046887, 72), Num(53553277, 75), Num(5236707, 71),
                      Num(65817918, 44), Num(1, 26)))

\* Property names every object literal inherits from Object.prototype; the
\* model keeps the ones the id universe below uses.
ObjectPrototypeKeys == {"constructor", "toString"}

Inherited(key) == [inherited |-> key]

\* obj[key] || fallback for an object literal obj: an own property, a property
\* inherited from Object.prototype (truthy), or the fallback
LookupOr(obj, key, fallback) ==
    IF key \in DOMAIN obj THEN obj[key]
    ELSE IF key \in ObjectPrototypeKeys THEN Inherited(key)
    ELSE fallback

---------------------------------------------------------------------------
(* lpStaticDataService: queries.                                           *)

\* the vehicle filter checked before the fund filter
getPortfolioMetrics_VehicleFirst(vehicleIdArg, fundIdArg) ==
    LET vehicleId == DefaultAll(vehicleIdArg)
        fundId == DefaultAll(fundIdArg)
    IN  IF vehicleId # "all" THEN LookupOr(vehicleMetrics, vehicleId, fullMetrics)
        ELSE IF fundId # "all" THEN LookupOr(fundMetrics, fundId, fullMetrics)
        ELSE fullMetrics

getPortfolioMetrics(vehicleIdArg, fundIdArg) ==
    LET vehicleId == DefaultAll(vehicleIdArg)
        fundId == DefaultAll(fundIdArg)
    IN  IF fundId # "all" THEN LookupOr(fundMetrics, fundId, fullMetrics)
        ELSE IF vehicleId # "all" THEN LookupOr(vehicleMetrics, vehicleId, fullMetrics)
        ELSE fullMetrics

\* the percentage cut off after two decimals instead of rounded
getFunds_Truncated ==
    LET totalPortfolioCommitments == getPortfolioMetrics("all", "all").totalCommitments
    IN  [ i \in 1..Len(fundBaseData) |->
            LET fund == fundBaseData[i]
                fundM == getPortfolioMetrics("all", fund.id)
            IN  [id |-> fund.id, name |-> fund.name, vehicleId |-> fund.vehicleId,
                 color |-> fund.color,
                 allocation |-> QuotientSearch(MulSmall(fundM.totalCommitments, 10000),
                                               totalPortfolioCommitments, 0, 10000)] ]

getFunds ==
    LET totalPortfolioCommitments == getPortfolioMetrics("all", "all").totalCommitments
    IN  [ i \in 1..Len(fundBaseData) |->
            LET fund == fundBaseData[i]
                fundM == getPortfolioMetrics("all", fund.id)
            IN  [id |-> fund.id, name |-> fund.name, vehicleId |-> fund.vehicleId,
                 color |-> fund.color,
                 allocation |-> RoundRatio10000(fundM.totalCommitments,
                                                totalPortfolioCommitments)] ]

\* funds.find(f => f.id === fundId): the index of the first match, 0 for undefined
FindFund(funds, fundId) ==
    IF \E i \in 1..Len(funds) : funds[i].id = fundId
    THEN CHOOSE i \in 1..Len(funds) :
            funds[i].id = fundId /\ \A j \in 1..(i - 1) : funds[j].id # fundId
    ELSE 0

RECURSIVE FilterByVehicle(_, _)
FilterByVehicle(funds, vehicleId) ==
    IF funds = <<>> THEN <<>>
    ELSE (IF funds[1].vehicleId = vehicleId THEN <<funds[1]>> ELSE <<>>)
         \o FilterByVehicle(Tail(funds), vehicleId)

RECURSIVE SumAllocation(_)
SumAllocation(funds) ==
    IF funds = <<>> THEN 0 ELSE funds[1].allocation + SumAllocation(Tail(funds))

Percent(num, den) == [num |-> num, den |-> den]

\* the selected fund looked up among the funds of the selected vehicle only
getFundAllocation_FilteredLookup(vehicleIdArg, fundIdArg) ==
    LET vehicleId == DefaultAll(vehicleIdArg)
        fundId == DefaultAll(fundIdArg)
        funds == getFunds
        filteredFunds == IF vehicleId # "all" THEN FilterByVehicle(funds, vehicleId)
                         ELSE funds
        selected == FindFund(filteredFunds, fundId)
        total == SumAllocation(filteredFunds)
    IN  IF fundId # "all" /\ selected # 0
        THEN << [fundId |-> filteredFunds[selected].id,
                 fundName |-> filteredFunds[selected].name,
                 allocation |-> Percent(100, 1),
                 value |-> getPortfolioMetrics(vehicleId, fundId).totalCommitments,
                 color |-> filteredFunds[selected].color] >>
        ELSE [ i \in 1..Len(filteredFunds) |->
                LET fund == filteredFunds[i]
                IN  [fundId |-> fund.id,
                     fundName |-> fund.name,
                     allocation |-> IF vehicleId = "all"
                                    THEN Percent(fund.allocation, 100)
                                    ELSE Percent(fund.allocation * 100, total),
                     value |-> getPortfolioMetrics("all", fund.id).totalCommitments,
                     color |-> fund.color] ]

\* an unknown fund id makes the vehicle filter ignored as well
getFundAllocation_UnknownFundUnfiltered(vehicleIdArg, fundIdArg) ==
    LET vehicleId == DefaultAll(vehicleIdArg)
        fundId == DefaultAll(fundIdArg)
        funds == getFunds
        selected == FindFund(funds, fundId)
        filteredFunds == IF vehicleId # "all" /\ (fundId = "all" \/ selected # 0)
                         THEN FilterByVehicle(funds, vehicleId)
                         ELSE funds
        total == SumAllocation(filteredFunds)
    IN  IF fundId # "all" /\ selected # 0
        THEN << [fundId |-> funds[selected].id,
                 fundName |-> funds[selected].name,
                 allocation |-> Percent(100, 1),
                 value |-> getPortfolioMetrics(vehicleId, fundId).totalCommitments,
                 color |-> funds[selected].color] >>
        ELSE [ i \in 1..Len(filteredFunds) |->
                LET fund == filteredFunds[i]
                IN  [fundId |-> fund.id,
                     fundName |-> fund.name,
                     allocation |-> IF vehicleId = "all"
                                    THEN Percent(fund.allocation, 100)
                                    ELSE Percent(fund.allocation * 100, total),
                     value |-> getPortfolioMetrics("all", fund.id).totalCommitments,
                     color |-> fund.color] ]

\* the funds of a vehicle keep their share of the whole portfolio
getFundAllocation_NotRenormalized(vehicleIdArg, fundIdArg) ==
    LET vehicleId == DefaultAll(vehicleIdArg)
        fundId == DefaultAll(fundIdArg)
        funds == getFunds
        filteredFunds == IF vehicleId # "all" THEN FilterByVehicle(funds, vehicleId)
                         ELSE funds
        selected == FindFund(funds, fundId)
    IN  IF fundId # "all" /\ selected # 0
        THEN << [fundId |-> funds[selected].id,
                 fundName |-> funds[selected].name,
                 allocation |-> Percent(100, 1),
                 value |-> getPortfolioMetrics(vehicleId, fundId).totalCommitments,
                 color |-> funds[selected].color] >>
        ELSE [ i \in 1..Len(filteredFunds) |->
                LET fund == filteredFunds[i]
                IN  [fundId |-> fund.id,
                     fundName |-> fund.name,
                     allocation |-> Percent(fund.allocation, 100),
                     value |-> getPortfolioMetrics("all", fund.id).totalCommitments,
                     color |-> fund.color] ]

\* the value of an entry taken from the metrics of the vehicle filter
getFundAllocation_VehicleScopedValue(vehicleIdArg, fundIdArg) ==
    LET vehicleId == DefaultAll(vehicleIdArg)
        fundId == DefaultAll(fundIdArg)
        funds == getFunds
        filteredFunds == IF vehicleId # "all" THEN FilterByVehicle(funds, vehicleId)
                         ELSE funds
        selected == FindFund(funds, fundId)
        total == SumAllocation(filteredFunds)
    IN  IF fundId # "all" /\ selected # 0
        THEN << [fundId |-> funds[selected].id,
                 fundName |-> funds[selected].name,
                 allocation |-> Percent(100, 1),
                 value |-> getPortfolioMetrics(vehicleId, fundId).totalCommitments,
                 color |-> funds[selected].color] >>
        ELSE [ i \in 1..Len(filteredFunds) |->
                LET fund == filteredFunds[i]
                IN  [fundId |-> fund.id,
                     fundName |-> fund.name,
                     allocation |-> IF vehicleId = "all"
                                    THEN Percent(fund.allocation, 100)
                                    ELSE Percent(fund.allocation * 100, total),
                     value |-> getPortfolioMetrics(vehicleId, "all").totalCommitments,
                     color |-> fund.color] ]

getFundAllocation(vehicleIdArg, fundIdArg) ==
    LET vehicleId == DefaultAll(vehicleIdArg)
        fundId == DefaultAll(fundIdArg)
        funds == getFunds
        filteredFunds == IF vehicleId # "all" THEN FilterByVehicle(funds, vehicleId)
                         ELSE funds
        selected == FindFund(funds, fundId)
        total == SumAllocation(filteredFunds)
    IN  IF fundId # "all" /\ selected # 0
        THEN << [fundId |-> funds[selected].id,
                 fundName |-> funds[selected].name,
                 allocation |-> Percent(100, 1),
                 value |-> getPortfolioMetrics(vehicleId, fundId).totalCommitments,
                 color |-> funds[selected].color] >>
        ELSE [ i \in 1..Len(filteredFunds) |->
                LET fund == filteredFunds[i]
                IN  [fundId |-> fund.id,
                     fundName |-> fund.name,
                     allocation |-> IF vehicleId = "all"
                                    THEN Percent(fund.allocation, 100)
                                    ELSE Percent(fund.allocation * 100, total),
                     value |-> getPortfolioMetrics("all", fund.id).totalCommitments,
                     color |-> fund.color] ]

---------------------------------------------------------------------------
(* lpStaticDataService: getPerformanceData.                                *)

NaN == <<-1>>

Digits == <<"0", "1", "2", "3", "4", "5", "6", "7", "8", "9">>

Digit(d) == Digits[d + 1]

Pad2(n) == Digit((n \div 10) % 10) \o Digit(n % 10)

Pad4(n) == Pad2(n \div 100) \o Pad2(n % 100)

\* new Date(year, monthIndex, 1).toISOString().slice(0, 7), where monthIndex may
\* be negative; the local midnight of the 1st is still the last day of the
\* previous month in UTC when the local zone is ahead of UTC
IsoMonthOfLocalFirst(year, monthIndex, tz) ==
    LET local == year * 12 + monthIndex
        utc == IF tz > 0 THEN local - 1 ELSE local
    IN  Pad4(utc \div 12) \o "-" \o Pad2((utc % 12) + 1)

\* months[0..11] of the code are months[1..12] here: i runs from 11 down to 0
Months(now, tz) ==
    [ k \in 1..12 |-> IsoMonthOfLocalFirst(now.year, now.month - (12 - k), tz) ]

BasePoint(tv, cc, tvpi) == [totalValue |-> tv, capitalCalled |-> cc, tvpi |-> tvpi]

fullPerformance ==
    << BasePoint(Num(145000000, 0), Num(118000000, 0), Num(1, 23)),
       BasePoint(Num(147500000, 0), Num(120000000, 0), Num(1, 24)),
       BasePoint(Num(150200000, 0), Num(122500000, 0), Num(1, 26)),
       BasePoint(Num(152800000, 0), Num(124000000, 0), Num(1, 27)),
       BasePoint(Num(154500000, 0), Num(125800000, 0), Num(1, 28)),
       BasePoint(Num(156200000, 0), Num(127200000, 0), Num(1, 29)),
       BasePoint(Num(157800000, 0), Num(128500000, 0), Num(1, 30)),
       BasePoint(Num(158900000, 0), Num(129400000, 0), Num(1, 31)),
       BasePoint(Num(159800000, 0), Num(130100000, 0), Num(1, 32)),
       BasePoint(Num(160100000, 0), Num(130400000, 0), Num(1, 32)),
       BasePoint(Num(160200000, 0), Num(130500000, 0), Num(1, 33)),
       BasePoint(Num(160335942, 14), Num(130575585, 29), Num(1, 33)) >>

Multipliers(v, c, t) == [valueMultiplier |-> v, calledMultiplier |-> c, tvpiOffset |-> t]

fundMultipliers ==
    ("pbventures" :> Multipliers(109, 95, 12)) @@
    ("norton"     :> Multipliers(104, 92, 5)) @@
    ("wanye"      :> Multipliers(96, 102, -5)) @@
    ("violet"     :> Multipliers(94, 105, -8)) @@
    ("123"        :> Multipliers(89, 108, -15)) @@
    ("mjk"        :> Multipliers(107, 98, 9))

vehicleMultipliers ==
    ("iv1" :> Multipliers(106, 96, 8)) @@
    ("iv2" :> Multipliers(95, 104, -7))

identityMultipliers == Multipliers(100, 100, 0)

\* Math.round(x * m * 100) / 100 for x in hundredths and m in hundredths
RoundProduct(x, m) == RoundDiv(MulSmall(x, m), 100)

\* Math.round((x + off) * 100) / 100 for a small x in hundredths
RoundSum(x, off) ==
    LET n == (IF Len(x) > 1 THEN x[2] * Base ELSE 0) + (IF Len(x) > 0 THEN x[1] ELSE 0) + off
    IN  Normalize(<<n % Base, n \div Base>>)

selectMultipliers(vehicleId, fundId) ==
    IF fundId # "all" THEN LookupOr(fundMultipliers, fundId, identityMultipliers)
    ELSE IF vehicleId # "all" THEN LookupOr(vehicleMultipliers, vehicleId, identityMultipliers)
    ELSE identityMultipliers

getPerformanceData(vehicleIdArg, fundIdArg, now, tz) ==
    LET vehicleId == DefaultAll(vehicleIdArg)
        fundId == DefaultAll(fundIdArg)
        months == Months(now, tz)
        multipliers == selectMultipliers(vehicleId, fundId)
        \* a function inherited from Object.prototype has none of the three
        \* properties: undefined in arithmetic gives NaN
        isObject == "valueMultiplier" \in DOMAIN multipliers
    IN  [ k \in 1..12 |->
            LET dataPoint == fullPerformance[k]
            IN  [date |-> months[k],
                 totalValue |-> IF isObject
                                THEN RoundProduct(dataPoint.totalValue, multipliers.valueMultiplier)
                                ELSE NaN,
                 capitalCalled |-> IF isObject
                                   THEN RoundProduct(dataPoint.capitalCalled, multipliers.calledMultiplier)
                                   ELSE NaN,
                 tvpi |-> IF isObject
                          THEN RoundSum(dataPoint.tvpi, multipliers.tvpiOffset)
                          ELSE NaN] ]

---------------------------------------------------------------------------
(* lpStaticDataService: formatting helpers.  A string is the sequence of   *)
(* its characters.  A value is null, undefined, NaN or a finite number     *)
(* [neg, whole, milli]: sign, integer part and the first three decimals of *)
(* its magnitude (the digits after the third do not change the rounding to *)
(* two decimals, which rounds a half away from zero).                      *)

NullValue == [kind |-> "null"]
UndefinedValue == [kind |-> "undefined"]
NaNValue == [kind |-> "NaN"]
Number(neg, whole, milli) ==
    [kind |-> "number", neg |-> neg, whole |-> whole, milli |-> milli]

\* the decimal digits of n, without leading zeros
RECURSIVE DigitsOf(_)
DigitsOf(n) ==
    IF n < 10 THEN <<Digit(n)>>
    ELSE Append(DigitsOf(n \div 10), Digit(n % 10))

\* the en-US grouping: a comma before every group of three digits
RECURSIVE Grouped(_)
Grouped(n) ==
    IF n < 1000 THEN DigitsOf(n)
    ELSE Grouped(n \div 1000) \o
         <<",", Digit((n \div 100) % 10), Digit((n \div 10) % 10),
           Digit(n % 10)>>

\* the magnitude as [whole, cents], rounded half away from zero
RoundedToCents(value) ==
    LET cents == (value.milli + 5) \div 10
    IN  IF cents = 100 THEN [whole |-> value.whole + 1, cents |-> 0]
        ELSE [whole |-> value.whole, cents |-> cents]

\* the magnitude as [whole, cents], the third decimal dropped
TruncatedToCents(value) ==
    [whole |-> value.whole, cents |-> value.milli \div 10]

FixedTwo(neg, r) ==
    (IF neg THEN <<"-">> ELSE <<>>) \o Grouped(r.whole) \o
    <<".", Digit(r.cents \div 10), Digit(r.cents % 10)>>

\* two fraction digits by cutting off instead of rounding
toLocaleString_Truncating(value) ==
    IF value.kind = "NaN" THEN <<"N", "a", "N">>
    ELSE FixedTwo(value.neg, TruncatedToCents(value))

\* value.toLocaleString('en-US', {minimumFractionDigits: 2,
\* maximumFractionDigits: 2}) of a number value
toLocaleString(value) ==
    IF value.kind = "NaN" THEN <<"N", "a", "N">>
    ELSE FixedTwo(value.neg, RoundedToCents(value))

formatCurrency(value) ==
    IF value.kind = "null" \/ value.kind = "undefined"
    THEN <<"$", "0", ".", "0", "0">>
    ELSE <<"$">> \o toLocaleString(value)

formatPercentage(value) ==
    IF value.kind = "null" \/ value.kind = "undefined"
    THEN <<"0", ".", "0", "0", "%">>
    ELSE toLocaleString(value) \o <<"%">>

formatTVPI(value) ==
    IF value.kind = "null" \/ value.kind = "undefined"
    THEN <<"0", ".", "0", "0">>
    ELSE toLocaleString(value)

---------------------------------------------------------------------------
(* One call of an exported query of the data service.                      *)

\* the {} and [] a component field starts with, and "no call yet"
EmptyObject == [empty |-> TRUE]

KnownVehicleIds == { InvestmentVehicles[i].id : i \in 2..Len(InvestmentVehicles) }
KnownFundIds == { fundBaseData[i].id : i \in 1..Len(fundBaseData) }

\* argument values of the calls: the ids of the fixture, unrecognized ids
\* (two of them names every object inherits), the empty string and an
\* omitted argument
UnknownIds == {"zzz", "constructor", "toString", ""}
VehicleArgs == {"all"} \cup KnownVehicleIds \cup UnknownIds \cup {Undefined}
FundArgs == {"all"} \cup KnownFundIds \cup UnknownIds \cup {Undefined}

\* dates and time zones of the browser: January exercises the year roll-over
Todays == { [year |-> 2026, month |-> 0], [year |-> 2026, month |-> 10] }
TimeZones == {-5, 0, 2}

\* The values the three queries return, tabulated once over the argument
\* values above (the queries are pure; evaluating them anew in every step
\* gives the same values).
MetricsOf == [v \in VehicleArgs, f \in FundArgs |-> getPortfolioMetrics(v, f)]
AllocationOf == [v \in VehicleArgs, f \in FundArgs |-> getFundAllocation(v, f)]
PerformanceOf ==
    [v \in VehicleArgs, f \in FundArgs, now \in Todays, tz \in TimeZones |->
        getPerformanceData(v, f, now, tz)]

\* no call is kept
NoCall ==
    [op |-> "none", vehicleId |-> "all", fundId |-> "all", month |-> <<>>,
     ret |-> EmptyObject, repeated |-> FALSE]

\* the kept call once one more call has been made: the new call is a
\* repetition of it when function and arguments are the same
AfterCall(op, v, f) ==
    IF earlier.op = op /\ earlier.vehicleId = v /\ earlier.fundId = f
    THEN [earlier EXCEPT !.repeated = TRUE]
    ELSE earlier

\* a query that answers from what the dashboard holds
CallGetPortfolioMetrics_DashboardCache(v, f) ==
    /\ callOp' = "getPortfolioMetrics"
    /\ callValue' = UndefinedValue
    /\ callVehicleId' = v
    /\ callFundId' = f
    /\ ret' = IF connected THEN metrics ELSE MetricsOf[v, f]
    /\ earlier' = AfterCall("getPortfolioMetrics", v, f)
    /\ UNCHANGED <<envVars, uiVars>>

CallGetPortfolioMetrics(v, f) ==
    /\ callOp' = "getPortfolioMetrics"
    /\ callValue' = UndefinedValue
    /\ callVehicleId' = v
    /\ callFundId' = f
    /\ ret' = MetricsOf[v, f]
    /\ earlier' = AfterCall("getPortfolioMetrics", v, f)
    /\ UNCHANGED <<envVars, uiVars>>

CallGetFundAllocation(v, f) ==
    /\ callOp' = "getFundAllocation"
    /\ callValue' = UndefinedValue
    /\ callVehicleId' = v
    /\ callFundId' = f
    /\ ret' = AllocationOf[v, f]
    /\ earlier' = AfterCall("getFundAllocation", v, f)
    /\ UNCHANGED <<envVars, uiVars>>

CallGetPerformanceData(v, f) ==
    /\ callOp' = "getPerformanceData"
    /\ callValue' = UndefinedValue
    /\ callVehicleId' = v
    /\ callFundId' = f
    /\ ret' = PerformanceOf[v, f, today, tzOffset]
    /\ earlier' = AfterCall("getPerformanceData", v, f)
    /\ UNCHANGED <<envVars, uiVars>>

\* argument values of the formatting helpers: null, undefined, NaN (a point
\* of getPerformanceData can hold it), values of the fixture, and numbers
\* whose third decimal decides the rounding, carries into the integer part
\* or into a new group, or that are negative
FormatArgs ==
    { NullValue, UndefinedValue, NaNValue,
      Number(FALSE, 0, 0), Number(FALSE, 1, 333), Number(FALSE, 1, 330),
      Number(FALSE, 0, 4), Number(FALSE, 0, 5), Number(FALSE, 1, 994),
      Number(FALSE, 1, 995), Number(FALSE, 999, 995), Number(FALSE, 999999, 999),
      Number(FALSE, 31, 450), Number(FALSE, 45, 676), Number(FALSE, 100, 0),
      Number(FALSE, 1000, 0), Number(FALSE, 1234567, 891),
      Number(FALSE, 618886450, 230), Number(FALSE, 160335942, 140),
      Number(TRUE, 5, 500), Number(TRUE, 0, 1), Number(TRUE, 1234, 565) }

CallFormat(op, value, text) ==
    /\ callOp' = op
    /\ callValue' = value
    /\ callVehicleId' = Undefined
    /\ callFundId' = Undefined
    /\ ret' = text
    /\ UNCHANGED <<earlier, envVars, uiVars>>

CallFormatCurrency(value) == CallFormat("formatCurrency", value, formatCurrency(value))
CallFormatPercentage(value) == CallFormat("formatPercentage", value, formatPercentage(value))
CallFormatTVPI(value) == CallFormat("formatTVPI", value, formatTVPI(value))

\* the two queries without parameters
CallGetInvestmentVehicles ==
    /\ callOp' = "getInvestmentVehicles"
    /\ callValue' = UndefinedValue
    /\ callVehicleId' = Undefined
    /\ callFundId' = Undefined
    /\ ret' = getInvestmentVehicles
    /\ earlier' = AfterCall("getInvestmentVehicles", Undefined, Undefined)
    /\ UNCHANGED <<envVars, uiVars>>

CallGetFunds ==
    /\ callOp' = "getFunds"
    /\ callValue' = UndefinedValue
    /\ callVehicleId' = Undefined
    /\ callFundId' = Undefined
    /\ ret' = getFunds
    /\ earlier' = AfterCall("getFunds", Undefined, Undefined)
    /\ UNCHANGED <<envVars, uiVars>>

---------------------------------------------------------------------------
(* The two components and the timer queue as one record, so that a handler *)
(* that calls into the other component is one function of the record.      *)

\* F(x) with the argument x evaluated once, before the call, as JavaScript
\* evaluates the argument of a call
Call(F(_), x) == CHOOSE r \in { F(v) : v \in {x} } : TRUE

\* the fields at the start of an operation; the observation starts empty
Snapshot ==
    [selectedVehicleId |-> selectedVehicleId, selectedFundId |-> selectedFundId,
     currentVehicleId |-> currentVehicleId, currentFundId |-> currentFundId,
     metrics |-> metrics, allocationData |-> allocationData,
     performanceData |-> performanceData,
     isLoading |-> isLoading, pendingTimeout |-> pendingTimeout,
     timers |-> timers, loaded |-> FALSE, dispatched |-> <<>>]

\* the fields at the end of the operation op
Commit(result, op, args) ==
    \E s \in {result} :
        /\ selectedVehicleId' = s.selectedVehicleId
        /\ selectedFundId' = s.selectedFundId
        /\ currentVehicleId' = s.currentVehicleId
        /\ currentFundId' = s.currentFundId
        /\ metrics' = s.metrics
        /\ allocationData' = s.allocationData
        /\ performanceData' = s.performanceData
        /\ isLoading' = s.isLoading
        /\ pendingTimeout' = s.pendingTimeout
        /\ timers' = s.timers
        /\ loaded' = s.loaded
        /\ dispatched' = s.dispatched
        /\ lastOp' = op
        /\ lastArgs' = args
        /\ UNCHANGED <<connected, envVars, svcVars, modalVars, loginVars, quiet>>

(* setTimeout / clearTimeout.  A timer is [id, kind]; the kind names the   *)
(* callback and fixes the delay.  Ids are positive; an id is taken again   *)
(* once no timer and no field holds it.                                    *)

Delay(kind) == IF kind = "refreshData" THEN 500 ELSE 100

TimerIds(s) == { s.timers[i].id : i \in 1..Len(s.timers) }

NewTimerId(s) ==
    CHOOSE id \in 1..(Len(s.timers) + 2) :
        /\ id \notin TimerIds(s) \cup {s.pendingTimeout}
        /\ \A j \in 1..(id - 1) : j \in TimerIds(s) \cup {s.pendingTimeout}

setTimeout(s, kind) ==
    [s EXCEPT !.timers = Append(@, [id |-> NewTimerId(s), kind |-> kind])]

RECURSIVE WithoutTimer(_, _)
WithoutTimer(ts, id) ==
    IF ts = <<>> THEN <<>>
    ELSE (IF ts[1].id = id THEN <<>> ELSE <<ts[1]>>) \o WithoutTimer(Tail(ts), id)

clearTimeout(s, id) == [s EXCEPT !.timers = WithoutTimer(@, id)]

(* lpPortalDashboard *)

\* the views loaded for the filter bar's pair instead of the dashboard's
loadDashboardData_FilterBarPair(s) ==
    [s EXCEPT
        !.metrics = MetricsOf[s.selectedVehicleId, s.selectedFundId],
        !.allocationData = AllocationOf[s.selectedVehicleId, s.selectedFundId],
        !.performanceData = PerformanceOf[s.selectedVehicleId, s.selectedFundId,
                                          today, tzOffset],
        !.loaded = TRUE]

loadDashboardData(s) ==
    [s EXCEPT
        !.metrics = MetricsOf[s.currentVehicleId, s.currentFundId],
        !.allocationData = AllocationOf[s.currentVehicleId, s.currentFundId],
        !.performanceData = PerformanceOf[s.currentVehicleId, s.currentFundId,
                                          today, tzOffset],
        !.loaded = TRUE]

\* if (this.pendingTimeout) { clearTimeout(this.pendingTimeout); this.pendingTimeout = null; }
cancelPending(s) ==
    IF s.pendingTimeout # 0
    THEN [clearTimeout(s, s.pendingTimeout) EXCEPT !.pendingTimeout = 0]
    ELSE s

handleFilterChange(s, detail) ==
    LET s1 == cancelPending(s)
        s2 == [s1 EXCEPT !.isLoading = TRUE,
                         !.currentVehicleId = detail.vehicleId,
                         !.currentFundId = detail.fundId]
    IN  Call(LAMBDA t : [setTimeout(t, "handleFilterChange")
                            EXCEPT !.pendingTimeout = NewTimerId(t)], s2)

(* lpFilterBar *)

fireFilterChangeEvent(s) ==
    LET detail == [vehicleId |-> s.selectedVehicleId, fundId |-> s.selectedFundId]
        dispatchEvent(t) == handleFilterChange(t, t.dispatched[Len(t.dispatched)])
    IN  Call(dispatchEvent, [s EXCEPT !.dispatched = Append(@, detail)])

\* the fund filter kept whatever the new vehicle is
handleVehicleChange_KeepsFund(s, newVehicleId) ==
    IF newVehicleId # s.selectedVehicleId
    THEN fireFilterChangeEvent([s EXCEPT !.selectedVehicleId = newVehicleId])
    ELSE s

handleVehicleChange(s, newVehicleId) ==
    IF newVehicleId # s.selectedVehicleId
    THEN LET s1 == [s EXCEPT !.selectedVehicleId = newVehicleId]
             funds == getFunds
             currentFund == FindFund(funds, s1.selectedFundId)
             s2 == IF /\ s1.selectedFundId # "all"
                      /\ currentFund # 0
                      /\ funds[currentFund].vehicleId # newVehicleId
                      /\ newVehicleId # "all"
                   THEN [s1 EXCEPT !.selectedFundId = "all"]
                   ELSE s1
         IN  fireFilterChangeEvent(s2)
    ELSE s

\* the fund selected without adopting its vehicle
handleFundChange_NoAdoption(s, newFundId) ==
    IF newFundId # s.selectedFundId
    THEN fireFilterChangeEvent([s EXCEPT !.selectedFundId = newFundId])
    ELSE s

handleFundChange(s, newFundId) ==
    IF newFundId # s.selectedFundId
    THEN LET s1 == [s EXCEPT !.selectedFundId = newFundId]
             funds == getFunds
             selectedFund == FindFund(funds, newFundId)
             s2 == IF /\ newFundId # "all"
                      /\ s1.selectedVehicleId = "all"
                      /\ selectedFund # 0
                   THEN [s1 EXCEPT !.selectedVehicleId = funds[selectedFund].vehicleId]
                   ELSE s1
         IN  fireFilterChangeEvent(s2)
    ELSE s

\* each filter reset and announced on its own
handleClearFilters_OneByOne(s) ==
    LET s1 == fireFilterChangeEvent([s EXCEPT !.selectedVehicleId = "all"])
    IN  fireFilterChangeEvent([s1 EXCEPT !.selectedFundId = "all"])

handleClearFilters(s) ==
    fireFilterChangeEvent([s EXCEPT !.selectedVehicleId = "all", !.selectedFundId = "all"])

\* an event after each field that changed
setFilters_EventPerField(s, vehicleId, fundId) ==
    LET changedV == Truthy(vehicleId) /\ vehicleId # s.selectedVehicleId
        s1 == IF changedV
              THEN fireFilterChangeEvent([s EXCEPT !.selectedVehicleId = vehicleId])
              ELSE s
        changedF == Truthy(fundId) /\ fundId # s1.selectedFundId
    IN  IF changedF
        THEN fireFilterChangeEvent([s1 EXCEPT !.selectedFundId = fundId])
        ELSE s1

setFilters(s, vehicleId, fundId) ==
    LET changedV == Truthy(vehicleId) /\ vehicleId # s.selectedVehicleId
        s1 == IF changedV THEN [s EXCEPT !.selectedVehicleId = vehicleId] ELSE s
        changedF == Truthy(fundId) /\ fundId # s1.selectedFundId
        s2 == IF changedF THEN [s1 EXCEPT !.selectedFundId = fundId] ELSE s1
    IN  IF changedV \/ changedF THEN fireFilterChangeEvent(s2) ELSE s2

\* the values the two dropdowns offer
vehicleOptions == { getInvestmentVehicles[i].id : i \in 1..Len(getInvestmentVehicles) }

fundOptions(s) ==
    LET funds == getFunds
        filteredFunds == IF s.selectedVehicleId # "all"
                         THEN FilterByVehicle(funds, s.selectedVehicleId)
                         ELSE funds
    IN  {"all"} \cup { filteredFunds[i].id : i \in 1..Len(filteredFunds) }

(* lpPortalDashboard, continued *)

handleFundClick(s, fundId) ==
    IF Truthy(fundId) /\ fundId # s.currentFundId
    THEN LET s1 == cancelPending(s)
             funds == getFunds
             selectedFund == FindFund(funds, fundId)
         IN  IF selectedFund # 0
             THEN LET s2 == [s1 EXCEPT !.isLoading = TRUE,
                                       !.currentVehicleId = funds[selectedFund].vehicleId,
                                       !.currentFundId = fundId]
                  IN  [setTimeout(s2, "handleFundClick")
                          EXCEPT !.pendingTimeout = NewTimerId(s2)]
             ELSE s1
    ELSE s

\* the callback handleFilterChange passes to setTimeout
filterChangeTimeout(s) ==
    [loadDashboardData(s) EXCEPT !.isLoading = FALSE, !.pendingTimeout = 0]

\* the filter bar is not told about the clicked fund
fundClickTimeout_NoFilterBarUpdate(s) ==
    [loadDashboardData(s) EXCEPT !.isLoading = FALSE, !.pendingTimeout = 0]

\* the callback handleFundClick passes to setTimeout
fundClickTimeout(s) ==
    LET updateFilterBar(t) == setFilters(t, t.currentVehicleId, t.currentFundId)
        s2 == Call(updateFilterBar, loadDashboardData(s))
    IN  [s2 EXCEPT !.isLoading = FALSE, !.pendingTimeout = 0]

\* the callback refreshData passes to setTimeout
refreshTimeout(s) ==
    [loadDashboardData(s) EXCEPT !.isLoading = FALSE]

resetFilters(s) ==
    LET s1 == loadDashboardData([s EXCEPT !.currentVehicleId = "all",
                                          !.currentFundId = "all"])
    IN  setFilters(s1, "all", "all")

\* the filters handed to the listener of the filter bar, the data loaded by
\* its timer
applyFilter_ViaTimer(s, vehicleId, fundId) ==
    setFilters([s EXCEPT !.currentVehicleId = IF Truthy(vehicleId) THEN vehicleId ELSE "all",
                         !.currentFundId = IF Truthy(fundId) THEN fundId ELSE "all"],
               IF Truthy(vehicleId) THEN vehicleId ELSE "all",
               IF Truthy(fundId) THEN fundId ELSE "all")

applyFilter(s, vehicleId, fundId) ==
    LET s1 == loadDashboardData(
                [s EXCEPT !.currentVehicleId = IF Truthy(vehicleId) THEN vehicleId ELSE "all",
                          !.currentFundId = IF Truthy(fundId) THEN fundId ELSE "all"])
    IN  setFilters(s1, s1.currentVehicleId, s1.currentFundId)

refreshData(s) == setTimeout([s EXCEPT !.isLoading = TRUE], "refreshData")

---------------------------------------------------------------------------
(* State machine.                                                          *)

\* outstanding timers the model lets accumulate
MaxTimers == 2

\* login requests the model lets be pending together
MaxRequests == 2

LoginPage == "/s/login"
EnterBothMessage == "Please enter both username and password."
LoginFailedMessage == "Login failed. Please check your credentials."

\* how many funds of fundBaseData (from the first on) the user picks among
MaxFundChoice == 3

FundChoices == { fundBaseData[i].id :
                    i \in 1..(IF MaxFundChoice < Len(fundBaseData) THEN MaxFundChoice
                              ELSE Len(fundBaseData)) }

\* arguments of the public method applyFilter and of a segmentclick event:
\* ids of the fixture, an unrecognized id and a falsy value
ApplyVehicleArgs == {"all"} \cup KnownVehicleIds \cup {"zzz", ""}
ApplyFundArgs == {"all"} \cup FundChoices \cup {"zzz", ""}
ClickFundArgs == FundChoices \cup {"zzz", ""}

Init ==
    /\ today = [year |-> 2026, month |-> 10]
    /\ tzOffset = 0
    /\ callOp = "none"
    /\ callVehicleId = "all"
    /\ callFundId = "all"
    /\ callValue = UndefinedValue
    /\ ret = EmptyObject
    /\ earlier = NoCall
    /\ selectedVehicleId = "all"
    /\ selectedFundId = "all"
    /\ connected = FALSE
    /\ currentVehicleId = "all"
    /\ currentFundId = "all"
    /\ metrics = EmptyObject
    /\ allocationData = <<>>
    /\ performanceData = <<>>
    /\ isLoading = FALSE
    /\ pendingTimeout = 0
    /\ modalIsOpen = FALSE
    /\ modalMetrics = EmptyObject
    /\ modalFilterState = [vehicleId |-> "all", fundId |-> "all"]
    /\ username = ""
    /\ password = ""
    /\ errorMessage = ""
    /\ loginIsLoading = FALSE
    /\ inFlight = 0
    /\ href = LoginPage
    /\ timers = <<>>
    /\ lastOp = "new"
    /\ lastArgs = <<>>
    /\ loaded = FALSE
    /\ dispatched = <<>>
    /\ quiet = FALSE

ConnectedCallback ==
    /\ ~connected
    /\ connected' = TRUE
    /\ LET s == loadDashboardData(Snapshot)
       IN  /\ metrics' = s.metrics
           /\ allocationData' = s.allocationData
           /\ performanceData' = s.performanceData
           /\ loaded' = s.loaded
    /\ lastOp' = "connectedCallback"
    /\ lastArgs' = <<>>
    /\ dispatched' = <<>>
    /\ UNCHANGED <<envVars, svcVars, barVars, currentVehicleId, currentFundId,
                   isLoading, pendingTimeout, modalVars, loginVars, timers, quiet>>

\* a request arrives: the component is rendered, requests still arrive, and
\* the timer queue has room
CanRequest == connected /\ ~quiet /\ Len(timers) < MaxTimers

HandleVehicleChange ==
    /\ CanRequest
    /\ \E v \in vehicleOptions :
        Commit(handleVehicleChange(Snapshot, v), "handleVehicleChange", <<v>>)

HandleFundChange ==
    /\ CanRequest
    /\ \E f \in fundOptions(Snapshot) \cap ({"all"} \cup FundChoices) :
        Commit(handleFundChange(Snapshot, f), "handleFundChange", <<f>>)

HandleClearFilters ==
    /\ CanRequest
    /\ Commit(handleClearFilters(Snapshot), "handleClearFilters", <<>>)

HandleFundClick ==
    /\ CanRequest
    /\ \E f \in ClickFundArgs :
        Commit(handleFundClick(Snapshot, f), "handleFundClick", <<f>>)

ResetFilters ==
    /\ CanRequest
    /\ Commit(resetFilters(Snapshot), "resetFilters", <<>>)

ApplyFilter ==
    /\ CanRequest
    /\ \E v \in ApplyVehicleArgs, f \in ApplyFundArgs :
        Commit(applyFilter(Snapshot, v, f), "applyFilter", <<v, f>>)

RefreshData ==
    /\ CanRequest
    /\ Commit(refreshData(Snapshot), "refreshData", <<>>)

\* The timer at position i is due no later than every other outstanding timer
\* for some timing of the requests: no timer scheduled before it has a delay
\* that is not longer.
MayFire(i) ==
    \A j \in 1..(i - 1) : Delay(timers[j].kind) > Delay(timers[i].kind)

TimerFires(i) ==
    /\ MayFire(i)
    /\ LET t == timers[i]
           s == [Snapshot EXCEPT !.timers = WithoutTimer(@, t.id)]
       IN  CASE t.kind = "handleFilterChange" ->
                    Commit(filterChangeTimeout(s), "filterChangeTimeout", <<>>)
             [] t.kind = "handleFundClick" ->
                    Commit(fundClickTimeout(s), "fundClickTimeout", <<>>)
             [] t.kind = "refreshData" ->
                    Commit(refreshTimeout(s), "refreshTimeout", <<>>)

SomeTimerFires == \E i \in 1..Len(timers) : TimerFires(i)

Next ==
    \/ ConnectedCallback
    \/ HandleVehicleChange
    \/ HandleFundChange
    \/ HandleClearFilters
    \/ HandleFundClick
    \/ ResetFilters
    \/ ApplyFilter
    \/ RefreshData
    \/ SomeTimerFires

Spec == Init /\ [][Next]_vars

\* from now on no request arrives; only timers fire
Quiesce ==
    /\ connected /\ ~quiet
    /\ quiet' = TRUE
    /\ UNCHANGED <<envVars, svcVars, barVars, dashVars, modalVars, loginVars, timers, obsVars>>

FairNext ==
    \/ Next
    \/ Quiesce

\* requests may stop arriving, and a scheduled timer eventually fires
FairSpec == Init /\ [][FairNext]_vars /\ WF_vars(SomeTimerFires)

\* a click on a donut segment: the chart draws segments for funds only
HandleKnownFundClick ==
    /\ CanRequest
    /\ \E f \in FundChoices :
        Commit(handleFundClick(Snapshot, f), "handleFundClick", <<f>>)

\* dropdown events, clicks on segments of known funds, resetFilters and
\* applyFilter
KnownClickNext ==
    \/ ConnectedCallback
    \/ HandleVehicleChange
    \/ HandleFundChange
    \/ HandleClearFilters
    \/ HandleKnownFundClick
    \/ ResetFilters
    \/ ApplyFilter
    \/ SomeTimerFires

KnownClickSpec == Init /\ [][KnownClickNext]_vars

(* lpReportsModal.  open(metrics, filterState) also schedules a timer that  *)
(* moves the focus to the close button; it changes no field.               *)

\* handleViewReportsClick calls modal.open(this.metrics, filterState); the
\* metrics object of the dashboard is truthy
HandleViewReportsClick ==
    /\ connected /\ ~quiet
    /\ modalMetrics' = metrics
    /\ modalFilterState' = [vehicleId |-> currentVehicleId, fundId |-> currentFundId]
    /\ modalIsOpen' = TRUE
    /\ lastOp' = "handleViewReportsClick"
    /\ lastArgs' = <<>>
    /\ loaded' = FALSE
    /\ dispatched' = <<>>
    /\ UNCHANGED <<envVars, svcVars, barVars, dashVars, loginVars, timers, quiet>>

\* close() of the modal; handleModalClose of the dashboard does nothing
CloseModal ==
    /\ modalIsOpen
    /\ modalIsOpen' = FALSE
    /\ lastOp' = "close"
    /\ lastArgs' = <<>>
    /\ loaded' = FALSE
    /\ dispatched' = <<>>
    /\ UNCHANGED <<envVars, svcVars, barVars, dashVars, modalMetrics,
                   modalFilterState, loginVars, timers, quiet>>

\* the dashboard with its filter bar and its reports modal
ReportsNext ==
    \/ ConnectedCallback
    \/ HandleVehicleChange
    \/ HandleFundChange
    \/ HandleClearFilters
    \/ HandleViewReportsClick
    \/ CloseModal
    \/ SomeTimerFires

ReportsSpec == Init /\ [][ReportsNext]_vars

(* customLogin *)

\* what a login request settles with: fulfilled with the URL to go to or
\* with a falsy result, or rejected with an error that has a body (an Apex
\* error) or has none
Fulfilled(result) ==
    [settled |-> "fulfilled", result |-> result, hasBody |-> FALSE, message |-> ""]
Rejected(hasBody, message) ==
    [settled |-> "rejected", result |-> "", hasBody |-> hasBody, message |-> message]
LoginOutcomes ==
    { Fulfilled("/s/home"), Fulfilled(""),
      Rejected(TRUE, "Your login attempt has failed."),
      Rejected(FALSE, "Failed to fetch") }

\* error.body ? error.body.message : 'Unknown error'
MessageOfError(hasBody, message) == IF hasBody THEN message ELSE "Unknown error"

\* what the two inputs hold
Usernames == {"", "lp@example.com"}
Passwords == {"", "secret"}

HandleUsernameChange ==
    /\ username' \in Usernames
    /\ lastOp' = "handleUsernameChange"
    /\ lastArgs' = <<username'>>
    /\ UNCHANGED <<envVars, svcVars, barVars, dashVars, modalVars, password,
                   errorMessage, loginIsLoading, inFlight, href, timers,
                   loaded, dispatched, quiet>>

HandlePasswordChange ==
    /\ password' \in Passwords
    /\ lastOp' = "handlePasswordChange"
    /\ lastArgs' = <<password'>>
    /\ UNCHANGED <<envVars, svcVars, barVars, dashVars, modalVars, username,
                   errorMessage, loginIsLoading, inFlight, href, timers,
                   loaded, dispatched, quiet>>

\* handleLogin up to the call of login(...), whose promise is then pending
handleLogin ==
    IF username = "" \/ password = ""
    THEN /\ errorMessage' = EnterBothMessage
         /\ UNCHANGED <<loginIsLoading, inFlight>>
    ELSE /\ loginIsLoading' = TRUE
         /\ errorMessage' = ""
         /\ inFlight' = inFlight + 1

\* the model lets MaxRequests requests be pending together
CanLogin == (username # "" /\ password # "") => inFlight < MaxRequests

\* a click on the login button
HandleLogin ==
    /\ CanLogin
    /\ handleLogin
    /\ lastOp' = "handleLogin"
    /\ lastArgs' = <<>>
    /\ UNCHANGED <<envVars, svcVars, barVars, dashVars, modalVars, username,
                   password, href, timers, loaded, dispatched, quiet>>

\* a key pressed in one of the inputs
HandleEnterKey ==
    /\ CanLogin
    /\ \E key \in {"Enter", "a"} :
          /\ IF key = "Enter" THEN handleLogin
             ELSE UNCHANGED <<errorMessage, loginIsLoading, inFlight>>
          /\ lastOp' = "handleEnterKey"
          /\ lastArgs' = <<key>>
    /\ UNCHANGED <<envVars, svcVars, barVars, dashVars, modalVars, username,
                   password, href, timers, loaded, dispatched, quiet>>

\* one pending request settles: the then / catch callback and the finally
\* callback run
LoginSettles ==
    /\ inFlight > 0
    /\ \E outcome \in LoginOutcomes :
          /\ IF outcome.settled = "fulfilled"
             THEN IF outcome.result # ""
                  THEN href' = outcome.result /\ errorMessage' = errorMessage
                  ELSE href' = href /\ errorMessage' = LoginFailedMessage
             ELSE /\ href' = href
                  /\ errorMessage' = MessageOfError(outcome.hasBody, outcome.message)
          /\ lastArgs' = <<outcome>>
    /\ loginIsLoading' = FALSE
    /\ inFlight' = inFlight - 1
    /\ lastOp' = "loginSettles"
    /\ UNCHANGED <<envVars, svcVars, barVars, dashVars, modalVars, username,
                   password, timers, loaded, dispatched, quiet>>

LoginNext ==
    \/ HandleUsernameChange
    \/ HandlePasswordChange
    \/ HandleLogin
    \/ HandleEnterKey
    \/ LoginSettles

LoginSpec == Init /\ [][LoginNext]_vars

\* the page is opened on another day or in another time zone; no query has
\* been called there yet
SetEnvironment ==
    /\ today' \in Todays
    /\ tzOffset' \in TimeZones
    /\ callOp' = "none"
    /\ callValue' = UndefinedValue
    /\ callVehicleId' = "all"
    /\ callFundId' = "all"
    /\ ret' = EmptyObject
    /\ UNCHANGED <<earlier, uiVars>>

SvcNext ==
    \/ SetEnvironment
    \/ CallGetInvestmentVehicles
    \/ CallGetFunds
    \/ \E value \in FormatArgs : CallFormatCurrency(value)
    \/ \E value \in FormatArgs : CallFormatPercentage(value)
    \/ \E value \in FormatArgs : CallFormatTVPI(value)
    \/ \E v \in VehicleArgs, f \in FundArgs : CallGetPortfolioMetrics(v, f)
    \/ \E v \in VehicleArgs, f \in FundArgs : CallGetFundAllocation(v, f)
    \/ \E v \in VehicleArgs, f \in FundArgs : CallGetPerformanceData(v, f)

SvcSpec == Init /\ [][SvcNext]_vars

\* the last call is kept; for getPerformanceData together with the month
\* and the time zone it was made in
RememberCall ==
    /\ callOp # "none"
    /\ earlier' = [op |-> callOp, vehicleId |-> callVehicleId,
                   fundId |-> callFundId,
                   month |-> IF callOp = "getPerformanceData"
                             THEN <<today, tzOffset>> ELSE <<>>,
                   ret |-> ret, repeated |-> FALSE]
    /\ UNCHANGED <<envVars, callOp, callVehicleId, callFundId, callValue, ret, uiVars>>

\* arguments of the calls that are interleaved with the components
MixedVehicleArgs == {"all", "iv2"}
MixedFundArgs == {"all", "wanye"}

\* calls of the data service interleaved with operations of the filter bar
\* and of the dashboard, all on one day in one time zone
MixedNext ==
    \/ \E v \in MixedVehicleArgs, f \in MixedFundArgs : CallGetPortfolioMetrics(v, f)
    \/ \E v \in MixedVehicleArgs, f \in MixedFundArgs : CallGetFundAllocation(v, f)
    \/ \E v \in MixedVehicleArgs, f \in MixedFundArgs : CallGetPerformanceData(v, f)
    \/ RememberCall
    \/ ConnectedCallback
    \/ HandleClearFilters
    \/ HandleFundClick
    \/ SomeTimerFires

MixedSpec == Init /\ [][MixedNext]_vars

---------------------------------------------------------------------------
(* Properties of getPortfolioMetrics (checked under SvcSpec).              *)

\* C1: getPortfolioMetrics follows fund-over-vehicle precedence: a known fund
\* id gives that fund's metrics whatever the vehicle id is; fund 'all' with a
\* known vehicle gives that vehicle's stored metrics; ('all', 'all') gives the
\* full-portfolio fixture 618886450.23 / 130575585.29 / 12756900.14 /
\* 160335942.14 / 1.33.
MetricsPrecedence ==
    callOp = "getPortfolioMetrics" =>
        /\ callFundId \in KnownFundIds => ret = fundMetrics[callFundId]
        /\ (DefaultAll(callFundId) = "all" /\ callVehicleId \in KnownVehicleIds)
              => ret = vehicleMetrics[callVehicleId]
        /\ (DefaultAll(callFundId) = "all" /\ DefaultAll(callVehicleId) = "all")
              => ret = Metrics(Num(618886450, 23), Num(130575585, 29),
                               Num(12756900, 14), Num(160335942, 14), Num(1, 33))

\* a known fund was asked for together with the other vehicle
MetricsPrecedenceWitness ==
    /\ callOp = "getPortfolioMetrics"
    /\ callVehicleId = "iv2"
    /\ callFundId = "pbventures"
    /\ ret.totalCommitments = Num(194628458, 10)

UnknownFundId(f) == f \notin KnownFundIds \cup {"all", Undefined}
UnknownVehicleId(v) == v \notin KnownVehicleIds \cup {"all", Undefined}

\* C2: getPortfolioMetrics(v, f) returns the full-portfolio fixture whenever
\* f is an unknown fund id or v is an unknown vehicle id, also when the other
\* argument is a known id.
UnknownIdGivesFullMetrics ==
    (/\ callOp = "getPortfolioMetrics"
     /\ UnknownFundId(callFundId) \/ UnknownVehicleId(callVehicleId))
        => ret = fullMetrics

---------------------------------------------------------------------------
(* Properties of the dashboard and the filter bar (checked under Spec).    *)

\* the three views the data service returns for the dashboard's filter pair
ViewsOfCurrentFilters ==
    /\ metrics = MetricsOf[currentVehicleId, currentFundId]
    /\ allocationData = AllocationOf[currentVehicleId, currentFundId]
    /\ performanceData = PerformanceOf[currentVehicleId, currentFundId,
                                       today, tzOffset]

\* C3: whenever an operation or a timer callback has assigned metrics,
\* allocationData and performanceData, the assigned values are the data
\* service's outputs for the filter pair the dashboard holds then, the most
\* recently set one; a superseded pair's result never overwrites a newer view.
AssignedViewsAreCurrent == loaded => ViewsOfCurrentFilters

\* a timer callback has loaded a fund's view while another timer is
\* still outstanding
AssignedViewsAreCurrentWitness ==
    /\ lastOp \in {"filterChangeTimeout", "fundClickTimeout", "refreshTimeout"}
    /\ loaded
    /\ timers # <<>>
    /\ currentFundId \in KnownFundIds
    /\ metrics = fundMetrics[currentFundId]

\* C4: at most one recomputation timer is outstanding in every reachable
\* state, so that after a new filter change no timer of an earlier request
\* is left, also after the filterchange raised from inside the fund-click
\* callback and after refreshData.
AtMostOneTimer == Len(timers) <= 1

VehicleOfFund(fundId) == getFunds[FindFund(getFunds, fundId)].vehicleId

\* C5: if selectedFundId is not 'all' then selectedVehicleId is 'all' or the
\* vehicleId of the selected fund.
FilterStateInvariant ==
    selectedFundId # "all" =>
        \/ selectedVehicleId = "all"
        \/ /\ selectedFundId \in KnownFundIds
           /\ selectedVehicleId = VehicleOfFund(selectedFundId)

\* C6: handleVehicleChange(v) with v another vehicle than the selected one,
\* while a fund of the fixture is the active fund filter, selects v, and
\* resets the fund filter to 'all' if the fund does not belong to v and
\* keeps it if it does (every fund belongs to the unfiltered selection 'all').
VehicleChangeResetsForeignFund ==
    [][ (/\ lastOp' = "handleVehicleChange"
         /\ lastArgs'[1] # selectedVehicleId
         /\ selectedFundId \in KnownFundIds)
        => /\ selectedVehicleId' = lastArgs'[1]
           /\ selectedFundId' =
                 IF \/ lastArgs'[1] = "all"
                    \/ VehicleOfFund(selectedFundId) = lastArgs'[1]
                 THEN selectedFundId ELSE "all" ]_vars

\* iv2 was selected while a fund of iv1 was active: {iv2, all}, one event
VehicleChangeResetsForeignFundWitness ==
    /\ lastOp = "handleVehicleChange"
    /\ lastArgs = <<"iv2">>
    /\ selectedVehicleId = "iv2"
    /\ selectedFundId = "all"
    /\ currentFundId = "all"
    /\ dispatched = << [vehicleId |-> "iv2", fundId |-> "all"] >>
    /\ metrics = fundMetrics["pbventures"]

\* C7: handleFundChange(f) with f a fund of the fixture other than the
\* selected one sets selectedFundId to f, and sets selectedVehicleId to the
\* vehicleId of f if it was 'all' and leaves it unchanged otherwise.
FundChangeAdoptsVehicle ==
    [][ (/\ lastOp' = "handleFundChange"
         /\ lastArgs'[1] \in KnownFundIds
         /\ lastArgs'[1] # selectedFundId)
        => /\ selectedFundId' = lastArgs'[1]
           /\ selectedVehicleId' =
                 IF selectedVehicleId = "all" THEN VehicleOfFund(lastArgs'[1])
                 ELSE selectedVehicleId ]_vars

\* pbventures was selected and its vehicle iv1 adopted while the dashboard
\* still shows the unfiltered view
FundChangeAdoptsVehicleWitness ==
    /\ lastOp = "handleFundChange"
    /\ lastArgs = <<"pbventures">>
    /\ selectedVehicleId = "iv1"
    /\ selectedFundId = "pbventures"
    /\ dispatched = << [vehicleId |-> "iv1", fundId |-> "pbventures"] >>
    /\ metrics = fullMetrics

\* C8: handleClearFilters leaves both filters of the filter bar 'all' and
\* dispatches exactly one filterchange event, with detail {all, all}; the
\* dashboard takes over the same pair.
ClearFiltersIsAtomic ==
    lastOp = "handleClearFilters" =>
        /\ selectedVehicleId = "all" /\ selectedFundId = "all"
        /\ dispatched = << [vehicleId |-> "all", fundId |-> "all"] >>
        /\ currentVehicleId = "all" /\ currentFundId = "all"

\* both filters were cleared while the dashboard showed a fund of iv2
ClearFiltersIsAtomicWitness ==
    /\ lastOp = "handleClearFilters"
    /\ Len(dispatched) = 1
    /\ selectedVehicleId = "all" /\ selectedFundId = "all"
    /\ metrics = fundMetrics["wanye"]

\* C9: once no further request arrives after a handleFilterChange or a
\* handleFundClick, the dashboard eventually shows the views of its filter
\* pair with isLoading false (FairSpec: a scheduled timer eventually fires).
FilterChangeSettles == quiet ~> (~isLoading /\ ViewsOfCurrentFilters)

---------------------------------------------------------------------------
(* Properties of getFundAllocation (checked under SvcSpec).                *)

\* C10: for a fund f of the fixture and every vehicleId argument,
\* getFundAllocation returns exactly one entry, for f, with allocation 100
\* and value getPortfolioMetrics('all', f).totalCommitments.
SingleFundAllocation ==
    (callOp = "getFundAllocation" /\ callFundId \in KnownFundIds) =>
        /\ Len(ret) = 1
        /\ ret[1].fundId = callFundId
        /\ ret[1].allocation.num = 100 * ret[1].allocation.den
        /\ ret[1].value = getPortfolioMetrics("all", callFundId).totalCommitments

\* a fund of iv1 was asked for together with vehicle iv2
SingleFundAllocationWitness ==
    /\ callOp = "getFundAllocation"
    /\ callVehicleId = "iv2"
    /\ callFundId = "pbventures"
    /\ Len(ret) = 1
    /\ ret[1].value = Num(194628458, 10)

\* the allocation is exactly 100 percent
IsHundredPercent(p) == p.num = 100 * p.den

FundsOfVehicle(v) == SelectSeq(getFunds, LAMBDA fund : fund.vehicleId = v)

RECURSIVE SumOfGlobalAllocations(_)
SumOfGlobalAllocations(funds) ==
    IF funds = <<>> THEN 0
    ELSE funds[1].allocation + SumOfGlobalAllocations(Tail(funds))

RECURSIVE SumOfNumerators(_)
SumOfNumerators(entries) ==
    IF entries = <<>> THEN 0
    ELSE entries[1].allocation.num + SumOfNumerators(Tail(entries))

\* the percentages of the entries, all over the denominator den, sum to 100
\* within 0.02
SumsToHundred(entries, den) ==
    /\ \A i \in 1..Len(entries) : entries[i].allocation.den = den
    /\ 100 * SumOfNumerators(entries) >= (10000 - 2) * den
    /\ 100 * SumOfNumerators(entries) <= (10000 + 2) * den

\* C12: for a vehicle v of the fixture, getFundAllocation(v, 'all') returns
\* exactly the funds of v in getFunds order, each with its global allocation
\* divided by the sum of the global allocations of v's funds, times 100; the
\* percentages sum to 100 within 0.02.
VehicleAllocationRenormalized ==
    (/\ callOp = "getFundAllocation"
     /\ callVehicleId \in KnownVehicleIds
     /\ DefaultAll(callFundId) = "all") =>
        LET expected == FundsOfVehicle(callVehicleId)
            total == SumOfGlobalAllocations(expected)
        IN  /\ Len(ret) = Len(expected)
            /\ \A i \in 1..Len(expected) :
                /\ ret[i].fundId = expected[i].id
                /\ ret[i].allocation.num * total
                      = expected[i].allocation * 100 * ret[i].allocation.den
            /\ SumsToHundred(ret, total)

\* iv2 holds 18.75 + 14.20 + 8.10 = 41.05 percent of the portfolio; wanye's
\* share of iv2 is 18.75 / 41.05
VehicleAllocationRenormalizedWitness ==
    /\ callOp = "getFundAllocation"
    /\ callVehicleId = "iv2"
    /\ callFundId = "all"
    /\ Len(ret) = 3
    /\ ret[1].fundId = "wanye"
    /\ ret[1].allocation = Percent(187500, 4105)

\* a (in hundredths of a percent) is part / whole x 100 rounded to 2 decimals:
\* | a x whole - 10000 x part | <= whole / 2
IsRoundedShare(a, part, whole) ==
    /\ Leq(MulSmall(part, 2 * 10000), Add(MulSmall(whole, 2 * a), whole))
    /\ Leq(MulSmall(whole, 2 * a), Add(MulSmall(part, 2 * 10000), whole))

\* C13: getFundAllocation('all', 'all') returns one entry per fund of
\* getFunds, in its order, each with that fund's global allocation, which is
\* the fund's totalCommitments over the full-portfolio totalCommitments times
\* 100, rounded to 2 decimals; these percentages, and the allocations of
\* getFunds, sum to 100 within 0.02.
GlobalAllocationPerFund ==
    (/\ callOp = "getFundAllocation"
     /\ DefaultAll(callVehicleId) = "all"
     /\ DefaultAll(callFundId) = "all") =>
        /\ Len(ret) = Len(getFunds)
        /\ \A i \in 1..Len(getFunds) :
            /\ ret[i].fundId = getFunds[i].id
            /\ ret[i].allocation = Percent(getFunds[i].allocation, 100)
            /\ IsRoundedShare(getFunds[i].allocation,
                              fundMetrics[getFunds[i].id].totalCommitments,
                              fullMetrics.totalCommitments)
        /\ SumsToHundred(ret, 100)
        /\ SumOfGlobalAllocations(getFunds) \in (10000 - 2)..(10000 + 2)

\* the six funds with 31.45 + 22.30 + 18.75 + 14.20 + 8.10 + 5.21 = 100.01
GlobalAllocationPerFundWitness ==
    /\ callOp = "getFundAllocation"
    /\ callVehicleId = "all"
    /\ callFundId = "all"
    /\ Len(ret) = 6
    /\ ret[1].allocation = Percent(3145, 100)
    /\ SumOfNumerators(ret) = 10001

\* C14: the value of every entry getFundAllocation returns, for every
\* (vehicleId, fundId), is getPortfolioMetrics('all', e.fundId).totalCommitments,
\* the fund's own unfiltered commitments.
EntryValueIsFundCommitments ==
    callOp = "getFundAllocation" =>
        \A i \in 1..Len(ret) :
            ret[i].value = getPortfolioMetrics("all", ret[i].fundId).totalCommitments

\* the funds of iv2: wanye's entry carries wanye's commitments, which are
\* neither those of iv2 nor those of the portfolio
EntryValueIsFundCommitmentsWitness ==
    /\ callOp = "getFundAllocation"
    /\ callVehicleId = "iv2"
    /\ callFundId = "all"
    /\ Len(ret) = 3
    /\ ret[1].fundId = "wanye"
    /\ ret[1].value = fundMetrics["wanye"].totalCommitments
    /\ ret[1].value # vehicleMetrics["iv2"].totalCommitments
    /\ ret[1].value # fullMetrics.totalCommitments

\* C15: for an unknown vehicleId with fundId 'all', and for an unknown
\* fundId, getFundAllocation and getPerformanceData return what their
\* ('all', 'all') call returns.
UnknownIdGivesUnfilteredViews ==
    (\/ UnknownVehicleId(callVehicleId) /\ DefaultAll(callFundId) = "all"
     \/ UnknownFundId(callFundId)) =>
        /\ callOp = "getFundAllocation" => ret = AllocationOf["all", "all"]
        /\ callOp = "getPerformanceData" =>
              ret = PerformanceOf["all", "all", today, tzOffset]

\* YYYY-MM of the month `back` months before the caller's current month
CalendarMonth(now, back) ==
    LET index == now.year * 12 + now.month - back
    IN  Pad4(index \div 12) \o "-" \o Pad2((index % 12) + 1)

\* C16: for every (vehicleId, fundId), current date and time-zone offset,
\* getPerformanceData returns 12 points whose dates are the YYYY-MM strings of
\* 12 consecutive calendar months, the last being the caller's current month
\* and the first the current month minus 11.
TwelveMonthsEndingNow ==
    callOp = "getPerformanceData" =>
        /\ Len(ret) = 12
        /\ \A k \in 1..12 : ret[k].date = CalendarMonth(today, 12 - k)

\* the adjustment the filter pair selects: the fund's when fundId is not
\* 'all', the vehicle's when only vehicleId is not 'all', the identity for an
\* unknown id and for ('all', 'all')
AdjustmentOf(vehicleIdArg, fundIdArg) ==
    LET vehicleId == DefaultAll(vehicleIdArg)
        fundId == DefaultAll(fundIdArg)
    IN  IF fundId # "all"
        THEN (IF fundId \in KnownFundIds THEN fundMultipliers[fundId]
              ELSE identityMultipliers)
        ELSE IF vehicleId # "all"
        THEN (IF vehicleId \in KnownVehicleIds THEN vehicleMultipliers[vehicleId]
              ELSE identityMultipliers)
        ELSE identityMultipliers

\* the point is the canonical point base under the adjustment m, each field
\* rounded to 2 decimals
IsAdjustedPoint(point, base, m) ==
    /\ point.totalValue = RoundProduct(base.totalValue, m.valueMultiplier)
    /\ point.capitalCalled = RoundProduct(base.capitalCalled, m.calledMultiplier)
    /\ point.tvpi = RoundSum(base.tvpi, m.tvpiOffset)

\* C17: each of the 12 points getPerformanceData returns is the canonical
\* full-portfolio point at the same index under the adjustment of the filter
\* pair: totalValue = round2(base.totalValue x valueMultiplier), capitalCalled
\* = round2(base.capitalCalled x calledMultiplier), tvpi = round2(base.tvpi +
\* tvpiOffset), with the identity adjustment for an unknown id.
PointsAreAdjustedBasePoints ==
    callOp = "getPerformanceData" =>
        /\ Len(ret) = Len(fullPerformance)
        /\ \A k \in 1..Len(fullPerformance) :
              IsAdjustedPoint(ret[k], fullPerformance[k],
                              AdjustmentOf(callVehicleId, callFundId))


---------------------------------------------------------------------------
(* Purity of the data service (checked under MixedSpec).                   *)

\* the call now is a repetition of the kept call: same function, same
\* arguments, and for getPerformanceData the same month in the same zone
RepeatsEarlierCall ==
    /\ earlier.repeated
    /\ callOp = earlier.op
    /\ callVehicleId = earlier.vehicleId
    /\ callFundId = earlier.fundId
    /\ callOp = "getPerformanceData" => earlier.month = <<today, tzOffset>>

---------------------------------------------------------------------------
(* Referential integrity of the fixture (checked under SvcSpec).           *)

\* the vehicles of the list, the sentinel excluded, whose id is vehicleId
VehiclesWithId(vehicleId) ==
    { j \in 2..Len(getInvestmentVehicles) :
        getInvestmentVehicles[j].id = vehicleId }

\* C19: getInvestmentVehicles returns the 'all' sentinel first, and every
\* fund returned by getFunds has a vehicleId that is the id of exactly one
\* non-sentinel vehicle of that list and an id with an entry of its own in
\* the fund-level metrics table.
FundsReferToVehiclesAndMetrics ==
    /\ callOp = "getInvestmentVehicles" =>
          /\ Len(ret) >= 1
          /\ ret[1].id = "all"
    /\ callOp = "getFunds" =>
          \A i \in 1..Len(ret) :
              /\ Cardinality(VehiclesWithId(ret[i].vehicleId)) = 1
              /\ ret[i].id \in DOMAIN fundMetrics

\* getFunds returned the six funds, the fifth being '123' of vehicle iv2
FundsReferToVehiclesAndMetricsWitness ==
    /\ callOp = "getFunds"
    /\ Len(ret) = 6
    /\ ret[5].id = "123"
    /\ ret[5].vehicleId = "iv2"
    /\ VehiclesWithId("iv2") = {3}

---------------------------------------------------------------------------
(* The formatting helpers (checked under SvcSpec).                         *)

FormatOps == {"formatCurrency", "formatPercentage", "formatTVPI"}

\* the text a helper returns for null and for undefined
ZeroText(op) ==
    CASE op = "formatCurrency" -> <<"$", "0", ".", "0", "0">>
      [] op = "formatPercentage" -> <<"0", ".", "0", "0", "%">>
      [] op = "formatTVPI" -> <<"0", ".", "0", "0">>

\* currency carries '$' in front, a percentage '%' behind
HasAffix(op, text) ==
    CASE op = "formatCurrency" -> Len(text) >= 1 /\ text[1] = "$"
      [] op = "formatPercentage" -> Len(text) >= 1 /\ text[Len(text)] = "%"
      [] op = "formatTVPI" -> TRUE

\* the text without the affix
NumberText(op, text) ==
    CASE op = "formatCurrency" -> SubSeq(text, 2, Len(text))
      [] op = "formatPercentage" -> SubSeq(text, 1, Len(text) - 1)
      [] op = "formatTVPI" -> text

IsDigit(c) == \E d \in 0..9 : Digit(d) = c
DigitValue(c) == CHOOSE d \in 0..9 : Digit(d) = c

\* the number text without its sign
Unsigned(t) == IF Len(t) >= 1 /\ t[1] = "-" THEN Tail(t) ELSE t

\* [-]d..d.dd: an integer part of digits and group separators, a point, and
\* exactly two digits
HasTwoDecimals(t) ==
    LET u == Unsigned(t)
    IN  /\ Len(u) >= 4
        /\ u[Len(u) - 2] = "."
        /\ IsDigit(u[Len(u) - 1]) /\ IsDigit(u[Len(u)])
        /\ \A i \in 1..(Len(u) - 3) : IsDigit(u[i]) \/ u[i] = ","
        /\ IsDigit(u[1])

\* the number the digits denote, group separators skipped
RECURSIVE ReadDigits(_)
ReadDigits(chars) ==
    IF chars = <<>> THEN 0
    ELSE LET front == ReadDigits(SubSeq(chars, 1, Len(chars) - 1))
             last == chars[Len(chars)]
         IN  IF last = "," THEN front ELSE front * 10 + DigitValue(last)

\* the number a two-decimal text denotes
ReadTwoDecimals(t) ==
    LET u == Unsigned(t)
    IN  [neg |-> (t # u),
         whole |-> ReadDigits(SubSeq(u, 1, Len(u) - 3)),
         cents |-> ReadDigits(SubSeq(u, Len(u) - 1, Len(u)))]

\* r is value rounded to two decimals: same sign, and no multiple of 0.01 is
\* nearer to the magnitude (a half goes away from zero); in thousandths
IsValueRoundedToCents(r, value) ==
    /\ r.neg = value.neg
    /\ r.whole - value.whole \in {0, 1}
    /\ (r.whole - value.whole) * 1000 + r.cents * 10 - value.milli \in -4..5

\* C20: formatCurrency, formatPercentage and formatTVPI do not fail on null
\* or undefined but return '$0.00', '0.00%' and '0.00'; for a number they
\* return the value rounded to exactly two decimals (with the '$' or '%'),
\* and formatTVPI(1.333) is '1.33'.
FormattersGiveTwoDecimals ==
    callOp \in FormatOps =>
        /\ callValue.kind \in {"null", "undefined"} => ret = ZeroText(callOp)
        /\ callValue.kind = "number" =>
              /\ HasAffix(callOp, ret)
              /\ HasTwoDecimals(NumberText(callOp, ret))
              /\ IsValueRoundedToCents(ReadTwoDecimals(NumberText(callOp, ret)),
                                       callValue)
        /\ (callOp = "formatTVPI" /\ callValue = Number(FALSE, 1, 333))
              => ret = <<"1", ".", "3", "3">>

\* formatCurrency(999.995) carried into a new group: '$1,000.00'
FormattersGiveTwoDecimalsWitness ==
    /\ callOp = "formatCurrency"
    /\ callValue = Number(FALSE, 999, 995)
    /\ ret = <<"$", "1", ",", "0", "0", "0", ".", "0", "0">>

---------------------------------------------------------------------------
(* The loading flag and the pending-timer field (checked under Spec).      *)

\* the outstanding timers scheduled by handleFilterChange or handleFundClick
FilterTimers ==
    { i \in 1..Len(timers) : timers[i].kind \in {"handleFilterChange", "handleFundClick"} }

\* C21: isLoading is false only if no filter-recomputation timer is
\* outstanding, also across overlapping handleFilterChange / handleFundClick
\* requests and the filterchange event setFilters raises from inside the
\* fund-click timer callback.
LoadingWhileFilterTimerOutstanding ==
    ~isLoading => FilterTimers = {}

\* C22: pendingTimeout is null if and only if no timer scheduled by
\* handleFilterChange or handleFundClick is outstanding, and otherwise
\* identifies the one outstanding filter timer.
PendingTimeoutTracksFilterTimer ==
    IF pendingTimeout = 0 THEN FilterTimers = {}
    ELSE /\ Cardinality(FilterTimers) = 1
         /\ \A i \in FilterTimers : timers[i].id = pendingTimeout

---------------------------------------------------------------------------
(* Dashboard and filter bar (checked under KnownClickSpec).                *)

FiltersAgree ==
    /\ currentVehicleId = selectedVehicleId
    /\ currentFundId = selectedFundId

\* C23: after any sequence of dropdown events, donut clicks on known funds
\* and resetFilters / applyFilter calls, once every outstanding timer has
\* fired the dashboard's filter pair equals the filter bar's.
FiltersConvergeOnceTimersFired ==
    timers = <<>> => FiltersAgree

\* a fund-click timer has fired, none is left, and both components hold the
\* clicked fund's pair
FiltersConvergeOnceTimersFiredWitness ==
    /\ timers = <<>>
    /\ lastOp = "fundClickTimeout"
    /\ loaded
    /\ FiltersAgree
    /\ currentFundId = "norton"
    /\ currentVehicleId = "iv1"

---------------------------------------------------------------------------
(* The reports modal (checked under ReportsSpec).                          *)

\* C24: whenever handleViewReportsClick calls modal.open(metrics,
\* filterState), the metrics passed equal
\* getPortfolioMetrics(filterState.vehicleId, filterState.fundId), also when
\* the button is clicked while a filter recomputation is pending.
ModalOpenedWithConsistentSnapshot ==
    lastOp = "handleViewReportsClick" =>
        modalMetrics = MetricsOf[modalFilterState.vehicleId, modalFilterState.fundId]

---------------------------------------------------------------------------
(* Donut clicks (checked under Spec).                                      *)

\* C25: handleFundClick with an empty fundId, the current fundId or a
\* fundId that is not a known fund leaves currentVehicleId, currentFundId,
\* isLoading and the pending recomputation timer unchanged.
RejectedFundClickIsNoOp ==
    [][ (/\ lastOp' = "handleFundClick"
         /\ \/ ~Truthy(lastArgs'[1])
            \/ lastArgs'[1] = currentFundId
            \/ lastArgs'[1] \notin KnownFundIds)
        => UNCHANGED <<currentVehicleId, currentFundId, isLoading,
                       pendingTimeout, timers>> ]_vars

---------------------------------------------------------------------------
(* Scope of the three views of one filter pair (checked under SvcSpec).    *)

Scope(kind, id) == [kind |-> kind, id |-> id]

\* the scope the metrics of the pair describe: a fund, a vehicle, the whole
\* portfolio, or none of them
MetricsScope(v, f) ==
    LET m == MetricsOf[v, f]
    IN  IF \E fund \in KnownFundIds : m = fundMetrics[fund]
        THEN Scope("fund", CHOOSE fund \in KnownFundIds : m = fundMetrics[fund])
        ELSE IF \E veh \in KnownVehicleIds : m = vehicleMetrics[veh]
        THEN Scope("vehicle", CHOOSE veh \in KnownVehicleIds : m = vehicleMetrics[veh])
        ELSE IF m = fullMetrics THEN Scope("all", "all")
        ELSE Scope("none", "none")

FundIdsOf(entries) == [i \in 1..Len(entries) |-> entries[i].fundId]
IdsOf(funds) == [i \in 1..Len(funds) |-> funds[i].id]

\* the scope an allocation list describes: one fund, the funds of one
\* vehicle, all funds, or none of them
AllocationScope(entries) ==
    LET ids == FundIdsOf(entries)
    IN  IF Len(entries) = 1 /\ ids[1] \in KnownFundIds
        THEN Scope("fund", ids[1])
        ELSE IF \E veh \in KnownVehicleIds : ids = IdsOf(FundsOfVehicle(veh))
        THEN Scope("vehicle",
                   CHOOSE veh \in KnownVehicleIds : ids = IdsOf(FundsOfVehicle(veh)))
        ELSE IF ids = IdsOf(getFunds) THEN Scope("all", "all")
        ELSE Scope("none", "none")

\* the adjustments of a scope
AdjustmentsOfScope(scope) ==
    CASE scope.kind = "fund" -> {fundMultipliers[scope.id]}
      [] scope.kind = "vehicle" -> {vehicleMultipliers[scope.id]}
      [] scope.kind = "all" -> {identityMultipliers}
      [] scope.kind = "none" -> {}

\* C26: for every (vehicleId, fundId), known or unknown, getFundAllocation
\* lists a single fund, one vehicle's funds or all funds exactly when
\* getPortfolioMetrics returns that fund's, that vehicle's or the
\* full-portfolio metrics, and getPerformanceData uses the adjustment of
\* that same scope.
ViewsDescribeSameScope ==
    /\ callOp = "getFundAllocation" =>
          AllocationScope(ret) = MetricsScope(callVehicleId, callFundId)
    /\ callOp = "getPerformanceData" =>
          \A m \in AdjustmentsOfScope(MetricsScope(callVehicleId, callFundId)) :
              \A k \in 1..Len(fullPerformance) :
                  IsAdjustedPoint(ret[k], fullPerformance[k], m)

---------------------------------------------------------------------------
(* Events of the filter bar (checked under Spec).                          *)

\* the operations that call handleVehicleChange, handleFundChange or, once,
\* setFilters
FilterBarCalls ==
    {"handleVehicleChange", "handleFundChange",
     "resetFilters", "applyFilter", "fundClickTimeout"}

\* C27: each call of handleVehicleChange, handleFundChange or setFilters
\* dispatches exactly one filterchange event if it changed selectedVehicleId
\* or selectedFundId and none otherwise, and the event's detail is the
\* filter-bar state after all updates of that call.
OneEventPerFilterBarChange ==
    [][ lastOp' \in FilterBarCalls =>
           dispatched' =
               IF <<selectedVehicleId', selectedFundId'>>
                      # <<selectedVehicleId, selectedFundId>>
               THEN << [vehicleId |-> selectedVehicleId',
                        fundId |-> selectedFundId'] >>
               ELSE <<>> ]_vars

\* setFilters changed both fields of the filter bar and dispatched one
\* event, with both new values
OneEventPerFilterBarChangeWitness ==
    /\ lastOp = "applyFilter"
    /\ lastArgs = <<"iv2", "wanye">>
    /\ selectedVehicleId = "iv2" /\ selectedFundId = "wanye"
    /\ dispatched = << [vehicleId |-> "iv2", fundId |-> "wanye"] >>

---------------------------------------------------------------------------
(* resetFilters and applyFilter (checked under Spec).                      *)

\* x || 'all'
OrAll(x) == IF Truthy(x) THEN x ELSE "all"

\* C28: when resetFilters returns, the dashboard's and the filter bar's
\* filters are ('all', 'all') and the three views are the unfiltered
\* outputs; when applyFilter(v, f) returns, the dashboard's filters are
\* (v or 'all', f or 'all'), the views are the service's outputs for them and
\* the filter bar holds the same pair, whatever timers were pending.
ResetAndApplyAreSynchronous ==
    /\ lastOp = "resetFilters" =>
          /\ currentVehicleId = "all" /\ currentFundId = "all"
          /\ selectedVehicleId = "all" /\ selectedFundId = "all"
          /\ metrics = fullMetrics
          /\ ViewsOfCurrentFilters
    /\ lastOp = "applyFilter" =>
          /\ currentVehicleId = OrAll(lastArgs[1])
          /\ currentFundId = OrAll(lastArgs[2])
          /\ selectedVehicleId = currentVehicleId
          /\ selectedFundId = currentFundId
          /\ ViewsOfCurrentFilters

\* applyFilter('', 'norton') returned while another timer was pending: the
\* pair is ('all', 'norton') in both components and norton's views are shown
ResetAndApplyAreSynchronousWitness ==
    /\ lastOp = "applyFilter"
    /\ lastArgs = <<"", "norton">>
    /\ currentVehicleId = "all" /\ currentFundId = "norton"
    /\ selectedVehicleId = "all" /\ selectedFundId = "norton"
    /\ metrics = fundMetrics["norton"]
    /\ Len(timers) = 2

---------------------------------------------------------------------------
(* The login component (checked under LoginSpec).                          *)

\* C29: isLoading of the login component is true whenever at least one
\* login request is in flight, also when handleLogin is triggered again
\* before an earlier request has settled, and false once all requests have
\* settled.
LoginLoadingWhileRequestInFlight ==
    /\ inFlight > 0 => loginIsLoading
    /\ inFlight = 0 => ~loginIsLoading

\* C30: handleLogin with an empty username or password sets the 'enter
\* both' message, issues no request and leaves isLoading unchanged;
\* otherwise it clears errorMessage and issues one request; a request ends
\* in exactly one of: redirect (truthy result, errorMessage stays empty),
\* the 'Login failed' message (falsy result), the error's message
\* (rejection).
LoginValidationAndOutcomes ==
    [][ /\ (lastOp' = "handleLogin"
              \/ (lastOp' = "handleEnterKey" /\ lastArgs' = <<"Enter">>))
           => IF username = "" \/ password = ""
              THEN /\ errorMessage' = EnterBothMessage
                   /\ inFlight' = inFlight
                   /\ loginIsLoading' = loginIsLoading
              ELSE /\ errorMessage' = ""
                   /\ inFlight' = inFlight + 1
        /\ lastOp' = "loginSettles"
           => LET outcome == lastArgs'[1]
              IN  /\ inFlight' = inFlight - 1
                  /\ IF outcome.settled = "fulfilled" /\ outcome.result # ""
                     THEN href' = outcome.result /\ errorMessage' = ""
                     ELSE IF outcome.settled = "fulfilled"
                     THEN href' = href /\ errorMessage' = LoginFailedMessage
                     ELSE href' = href /\ errorMessage' = MessageOfError(outcome.hasBody, outcome.message)
      ]_vars
=============================================================================
